---- MODULE Spec2Model ----
(***************************************************************************)
(* Verification model of barter-data-rs:                                   *)
(*   - streams/builder/multi.rs : MultiStreamBuilder (add / init and the   *)
(*     forwarding tasks spawned by each initialisation unit)               *)
(*   - exchange/okx/domain/trade.rs : OkxMessage<OkxTrade> decoding and    *)
(*     its conversion to MarketIter<PublicTrade>                           *)
(***************************************************************************)
EXTENDS Integers, Sequences, FiniteSets, TLC

(***************************************************************************)
(* Bounds                                                                  *)
(***************************************************************************)
\* number of StreamBuilders that may be added to one MultiStreamBuilder
MaxAdds == 2
\* total number of steps (emit an event, or end) the venue producers take in one behaviour
MaxEvents == 2

\* ExchangeId values used as venues
Venues == {"BybitFuturesUsd", "Okx"}

\* one per-kind source = (index of the contributing builder, venue)
Sources == (1..MaxAdds) \X Venues

VARIABLES
    channels,   \* MultiStreamBuilder.channels : venue -> id of its ExchangeChannel (0 = no entry)
    futures,    \* MultiStreamBuilder.futures  : the queued initialisation units
    phase,      \* "building" | "initialising" | "ok" | "err"   (position of the caller)
    initErr,    \* the DataError init returned: index of the builder whose init failed (0 = none)
    streams,    \* the Streams<Output> returned by init: set of <<venue, channel id>>
    rx,         \* per venue: state of the unified receiver  "none" | "alive" | "dropped"
    perKind,    \* per source: content of the per-kind channel (exchange_rx)
    produced,   \* per source: number of events the venue producer has emitted
    closed,     \* per source: the per-kind channel's senders are gone
    task,       \* per source: forwarding task  "none" | "run" | "done"
    unified,    \* per venue: the Outputs enqueued on the unified channel, in order (read ones included)
    rxRead,     \* per venue: number of Outputs the consumer has taken from the receiver
    okxWire,    \* an OKX trades WebSocket message as received (text fields)
    okxPc,      \* "idle" | "wire" | "decoded" | "done"  (position in the OKX pipeline)
    okxMsg,     \* result of deserialising okxWire into OkxMessage<OkxTrade>
    okxOut      \* the MarketIter<PublicTrade> built from okxMsg

multiVars == <<channels, futures, phase, initErr, streams, rx, perKind, produced,
               closed, task, unified, rxRead>>

okxVars == <<okxWire, okxPc, okxMsg, okxOut>>

vars == <<multiVars, okxVars>>

(***************************************************************************)
(* Helpers                                                                 *)
(***************************************************************************)
NoChannels == [v \in Venues |-> 0]

Units == 1..Len(futures)

\* Output::from(event) for an event of the builder `kind`
OutputFrom(kind, event) == [kind |-> kind, event |-> event]

\* collect that keeps only the channels the first add created
CollectStreamsFirst(chs) == {<<v, chs[v]>> : v \in {w \in Venues : chs[w] = 1}}

\* self.channels.into_iter().map(|(exchange, channel)| (exchange, channel.rx)).collect()
CollectStreams(chs) == {<<v, chs[v]>> : v \in {w \in Venues : chs[w] # 0}}

\* the venues of the Streams a contributing builder's init returns
InitStreams(unit) == unit.venues

\* producer steps taken so far: events emitted plus sources ended
TotalProduced == LET RECURSIVE Sum(_)
                     Sum(S) == IF S = {} THEN 0
                               ELSE LET s == CHOOSE x \in S : TRUE
                                    IN produced[s] + (IF closed[s] THEN 1 ELSE 0) + Sum(S \ {s})
                 IN Sum(Sources)

(***************************************************************************)
(* MultiStreamBuilder::new                                                 *)
(***************************************************************************)
InitMulti ==
    /\ channels = NoChannels
    /\ futures = << >>
    /\ phase = "building"
    /\ initErr = 0
    /\ streams = {}
    /\ rx = [v \in Venues |-> "none"]
    /\ perKind = [s \in Sources |-> << >>]
    /\ produced = [s \in Sources |-> 0]
    /\ closed = [s \in Sources |-> FALSE]
    /\ task = [s \in Sources |-> "none"]
    /\ unified = [v \in Venues |-> << >>]
    /\ rxRead = [v \in Venues |-> 0]

\* add with self.channels.insert(exchange, ExchangeChannel::default()) in place of
\* entry(exchange).or_default(): a venue already present gets a fresh channel
AddReplace(vs) ==
    /\ phase = "building"
    /\ Len(futures) < MaxAdds
    /\ LET k == Len(futures) + 1
           chs == [v \in Venues |-> IF v \in vs THEN k ELSE channels[v]]
       IN /\ channels' = chs
          /\ rx' = [v \in Venues |-> IF v \in vs THEN "alive" ELSE rx[v]]
          /\ futures' = Append(futures, [venues |-> vs,
                                         exchange_txs |-> [v \in vs |-> chs[v]],
                                         st |-> "queued"])
    /\ UNCHANGED <<phase, initErr, streams, perKind, produced, closed, task,
                   unified, rxRead>>
    /\ UNCHANGED okxVars

\* add that starts the builder's init at once instead of queueing the unit
AddEager(vs) ==
    /\ phase = "building"
    /\ Len(futures) < MaxAdds
    /\ LET k == Len(futures) + 1
           chs == [v \in Venues |-> IF v \in vs /\ channels[v] = 0 THEN k ELSE channels[v]]
       IN /\ channels' = chs
          /\ rx' = [v \in Venues |-> IF v \in vs /\ channels[v] = 0 THEN "alive" ELSE rx[v]]
          /\ futures' = Append(futures, [venues |-> vs,
                                         exchange_txs |-> [v \in vs |-> chs[v]],
                                         st |-> "running"])
    /\ UNCHANGED <<phase, initErr, streams, perKind, produced, closed, task,
                   unified, rxRead>>
    /\ UNCHANGED okxVars

\* a sender cloned only when add creates the channel of the venue: a unit holds
\* no sender for a venue an earlier add had registered
AddTxOnlyNew(vs) ==
    /\ phase = "building"
    /\ Len(futures) < MaxAdds
    /\ LET k == Len(futures) + 1
           chs == [v \in Venues |-> IF v \in vs /\ channels[v] = 0 THEN k ELSE channels[v]]
       IN /\ channels' = chs
          /\ rx' = [v \in Venues |-> IF v \in vs /\ channels[v] = 0 THEN "alive" ELSE rx[v]]
          /\ futures' = Append(futures, [venues |-> vs,
                                         exchange_txs |-> [v \in {w \in vs : channels[w] = 0}
                                                             |-> chs[v]],
                                         st |-> "queued"])
    /\ UNCHANGED <<phase, initErr, streams, perKind, produced, closed, task,
                   unified, rxRead>>
    /\ UNCHANGED okxVars

(***************************************************************************)
(* MultiStreamBuilder::add(builder), builder.channels.keys() = vs          *)
(***************************************************************************)
Add(vs) ==
    /\ phase = "building"
    /\ Len(futures) < MaxAdds
    /\ LET k == Len(futures) + 1
           chs == [v \in Venues |-> IF v \in vs /\ channels[v] = 0 THEN k ELSE channels[v]]
       IN /\ channels' = chs
          /\ rx' = [v \in Venues |-> IF v \in vs /\ channels[v] = 0 THEN "alive" ELSE rx[v]]
          /\ futures' = Append(futures, [venues |-> vs,
                                         exchange_txs |-> [v \in vs |-> chs[v]],
                                         st |-> "queued"])
    /\ UNCHANGED <<phase, initErr, streams, perKind, produced, closed, task,
                   unified, rxRead>>
    /\ UNCHANGED okxVars

(***************************************************************************)
(* MultiStreamBuilder::init: first poll of try_join_all(self.futures)      *)
(***************************************************************************)
InitStart ==
    /\ phase = "building"
    /\ IF futures = << >>
       THEN /\ phase' = "ok"
            /\ streams' = CollectStreams(channels)
            /\ channels' = NoChannels
            /\ UNCHANGED futures
       ELSE /\ phase' = "initialising"
            /\ futures' = [i \in Units |-> [futures[i] EXCEPT !.st = "running"]]
            /\ UNCHANGED <<streams, channels>>
    /\ UNCHANGED <<initErr, rx, perKind, produced, closed, task, unified, rxRead>>
    /\ UNCHANGED okxVars

\* futures awaited one after the other instead of joined: a unit resolves only
\* once every unit queued before it has resolved
UnitOkSequential(u) ==
    /\ phase = "initialising"
    /\ u \in Units
    /\ futures[u].st = "running"
    /\ \A i \in 1..(u - 1) : futures[i].st = "ok"
    /\ InitStreams(futures[u]) \subseteq DOMAIN futures[u].exchange_txs
    /\ LET fs == [futures EXCEPT ![u].st = "ok"]
       IN /\ futures' = fs
          /\ task' = [s \in Sources |->
                        IF s[1] = u /\ s[2] \in InitStreams(futures[u])
                        THEN "run" ELSE task[s]]
          /\ IF \A i \in Units : fs[i].st = "ok"
             THEN /\ phase' = "ok"
                  /\ streams' = CollectStreams(channels)
                  /\ channels' = NoChannels
             ELSE UNCHANGED <<phase, streams, channels>>
    /\ UNCHANGED <<initErr, rx, perKind, produced, closed, unified, rxRead>>
    /\ UNCHANGED okxVars

\* one spawn for the whole unit instead of one per returned stream: only the
\* first venue of the unit gets a forwarding task
UnitOkOneTask(u) ==
    /\ phase = "initialising"
    /\ u \in Units
    /\ futures[u].st = "running"
    /\ InitStreams(futures[u]) \subseteq DOMAIN futures[u].exchange_txs
    /\ LET fs == [futures EXCEPT ![u].st = "ok"]
       IN /\ futures' = fs
          /\ task' = [s \in Sources |->
                        IF /\ s[1] = u
                           /\ InitStreams(futures[u]) # {}
                           /\ s[2] = CHOOSE v \in InitStreams(futures[u]) : TRUE
                        THEN "run" ELSE task[s]]
          /\ IF \A i \in Units : fs[i].st = "ok"
             THEN /\ phase' = "ok"
                  /\ streams' = CollectStreams(channels)
                  /\ channels' = NoChannels
             ELSE UNCHANGED <<phase, streams, channels>>
    /\ UNCHANGED <<initErr, rx, perKind, produced, closed, unified, rxRead>>
    /\ UNCHANGED okxVars

\* Streams built from clones of the receivers' channels with self.channels kept:
\* init returns the Streams while the composition still holds its senders
UnitOkKeepsChannels(u) ==
    /\ phase = "initialising"
    /\ u \in Units
    /\ futures[u].st = "running"
    /\ InitStreams(futures[u]) \subseteq DOMAIN futures[u].exchange_txs
    /\ LET fs == [futures EXCEPT ![u].st = "ok"]
       IN /\ futures' = fs
          /\ task' = [s \in Sources |->
                        IF s[1] = u /\ s[2] \in InitStreams(futures[u])
                        THEN "run" ELSE task[s]]
          /\ IF \A i \in Units : fs[i].st = "ok"
             THEN /\ phase' = "ok"
                  /\ streams' = CollectStreams(channels)
                  /\ UNCHANGED channels
             ELSE UNCHANGED <<phase, streams, channels>>
    /\ UNCHANGED <<initErr, rx, perKind, produced, closed, unified, rxRead>>
    /\ UNCHANGED okxVars

(***************************************************************************)
(* An initialisation unit whose builder.init() resolved to Ok(streams):    *)
(* spawns one forwarding task per returned venue; when it was the last     *)
(* pending unit, try_join_all resolves and init returns Ok(Streams).       *)
(***************************************************************************)
UnitOk(u) ==
    /\ phase = "initialising"
    /\ u \in Units
    /\ futures[u].st = "running"
    /\ InitStreams(futures[u]) \subseteq DOMAIN futures[u].exchange_txs
    /\ LET fs == [futures EXCEPT ![u].st = "ok"]
       IN /\ futures' = fs
          /\ task' = [s \in Sources |->
                        IF s[1] = u /\ s[2] \in InitStreams(futures[u])
                        THEN "run" ELSE task[s]]
          /\ IF \A i \in Units : fs[i].st = "ok"
             THEN /\ phase' = "ok"
                  /\ streams' = CollectStreams(channels)
                  /\ channels' = NoChannels
             ELSE UNCHANGED <<phase, streams, channels>>
    /\ UNCHANGED <<initErr, rx, perKind, produced, closed, unified, rxRead>>
    /\ UNCHANGED okxVars

\* join_all in place of try_join_all: the Err of a unit is recorded but init goes on
\* and returns the Streams once no unit is pending
UnitFailIgnored(u) ==
    /\ phase = "initialising"
    /\ u \in Units
    /\ futures[u].st = "running"
    /\ LET fs == [futures EXCEPT ![u].st = "failed"]
       IN /\ futures' = fs
          /\ IF \A i \in Units : fs[i].st # "running"
             THEN /\ phase' = "ok"
                  /\ streams' = CollectStreams(channels)
                  /\ channels' = NoChannels
             ELSE UNCHANGED <<phase, streams, channels>>
    /\ UNCHANGED <<initErr, rx, perKind, produced, closed, task, unified, rxRead>>
    /\ UNCHANGED okxVars

\* units spawned as detached tasks instead of joined: the Err of one unit ends
\* init but leaves the units still pending running
UnitFailDetached(u) ==
    /\ phase = "initialising"
    /\ u \in Units
    /\ futures[u].st = "running"
    /\ futures' = [futures EXCEPT ![u].st = "failed"]
    /\ phase' = "err"
    /\ initErr' = u
    /\ channels' = NoChannels
    /\ rx' = [v \in Venues |-> IF rx[v] = "alive" THEN "dropped" ELSE rx[v]]
    /\ unified' = [v \in Venues |-> << >>]
    /\ UNCHANGED <<streams, perKind, produced, closed, task, rxRead>>
    /\ UNCHANGED okxVars

\* tasks spawned before the `?` on the result of the builder's init: a unit
\* whose builder failed has spawned the tasks of its venues all the same
UnitFailSpawns(u) ==
    /\ phase = "initialising"
    /\ u \in Units
    /\ futures[u].st = "running"
    /\ futures' = [i \in Units |->
                     IF i = u THEN [futures[i] EXCEPT !.st = "failed"]
                     ELSE IF futures[i].st = "running"
                          THEN [futures[i] EXCEPT !.st = "dropped"]
                          ELSE futures[i]]
    /\ task' = [s \in Sources |->
                  IF s[1] = u /\ s[2] \in futures[u].venues THEN "run" ELSE task[s]]
    /\ phase' = "err"
    /\ initErr' = u
    /\ channels' = NoChannels
    /\ rx' = [v \in Venues |-> IF rx[v] = "alive" THEN "dropped" ELSE rx[v]]
    /\ unified' = [v \in Venues |-> << >>]
    /\ UNCHANGED <<streams, perKind, produced, closed, rxRead>>
    /\ UNCHANGED okxVars

(***************************************************************************)
(* An initialisation unit whose builder.init() resolved to Err: `?`        *)
(* returns it, try_join_all resolves to that Err and drops the units still *)
(* pending, init returns the Err and drops self.channels: every unified    *)
(* receiver is dropped and what its channel held is freed.                 *)
(***************************************************************************)
UnitFail(u) ==
    /\ phase = "initialising"
    /\ u \in Units
    /\ futures[u].st = "running"
    /\ futures' = [i \in Units |->
                     IF i = u THEN [futures[i] EXCEPT !.st = "failed"]
                     ELSE IF futures[i].st = "running"
                          THEN [futures[i] EXCEPT !.st = "dropped"]
                          ELSE futures[i]]
    /\ phase' = "err"
    /\ initErr' = u
    /\ channels' = NoChannels
    /\ rx' = [v \in Venues |-> IF rx[v] = "alive" THEN "dropped" ELSE rx[v]]
    /\ unified' = [v \in Venues |-> << >>]
    /\ UNCHANGED <<streams, perKind, produced, closed, task, rxRead>>
    /\ UNCHANGED okxVars

(***************************************************************************)
(* Venue producer of an initialised builder: emits the next event on the   *)
(* per-kind channel, or ends (drops its sender).                           *)
(***************************************************************************)
Produce(s) ==
    /\ s[1] \in Units
    /\ futures[s[1]].st = "ok"
    /\ s[2] \in InitStreams(futures[s[1]])
    /\ ~closed[s]
    /\ TotalProduced < MaxEvents
    /\ produced' = [produced EXCEPT ![s] = @ + 1]
    /\ perKind' = [perKind EXCEPT ![s] = Append(@, [exchange |-> s[2], seq |-> produced[s] + 1])]
    /\ UNCHANGED <<channels, futures, phase, initErr, streams, rx, closed, task,
                   unified, rxRead>>
    /\ UNCHANGED okxVars

CloseSource(s) ==
    /\ s[1] \in Units
    /\ futures[s[1]].st = "ok"
    /\ s[2] \in InitStreams(futures[s[1]])
    /\ ~closed[s]
    /\ TotalProduced < MaxEvents
    /\ closed' = [closed EXCEPT ![s] = TRUE]
    /\ UNCHANGED <<channels, futures, phase, initErr, streams, rx, perKind, produced,
                   task, unified, rxRead>>
    /\ UNCHANGED okxVars

\* a forwarding task that takes the newest queued event instead of the oldest
ForwardTaskNewest(s) ==
    /\ task[s] = "run"
    /\ IF perKind[s] # << >>
       THEN /\ perKind' = [perKind EXCEPT ![s] = SubSeq(@, 1, Len(@) - 1)]
            /\ unified' = IF rx[s[2]] = "alive"
                          THEN [unified EXCEPT ![s[2]] =
                                   Append(@, OutputFrom(s[1], perKind[s][Len(perKind[s])]))]
                          ELSE unified
            /\ UNCHANGED task
       ELSE /\ closed[s]
            /\ task' = [task EXCEPT ![s] = "done"]
            /\ UNCHANGED <<perKind, unified>>
    /\ UNCHANGED <<channels, futures, phase, initErr, streams, rx, produced, closed, rxRead>>
    /\ UNCHANGED okxVars

\* a forwarding task that sends through a one-slot try_send: the Output is
\* discarded when the unified channel already holds an unread Output
ForwardTaskLossy(s) ==
    /\ task[s] = "run"
    /\ IF perKind[s] # << >>
       THEN /\ perKind' = [perKind EXCEPT ![s] = Tail(@)]
            /\ unified' = IF rx[s[2]] = "alive" /\ rxRead[s[2]] = Len(unified[s[2]])
                          THEN [unified EXCEPT ![s[2]] =
                                   Append(@, OutputFrom(s[1], Head(perKind[s])))]
                          ELSE unified
            /\ UNCHANGED task
       ELSE /\ closed[s]
            /\ task' = [task EXCEPT ![s] = "done"]
            /\ UNCHANGED <<perKind, unified>>
    /\ UNCHANGED <<channels, futures, phase, initErr, streams, rx, produced, closed, rxRead>>
    /\ UNCHANGED okxVars

\* a forwarding task that sends through one channel shared by all venues: it
\* cannot proceed while the receiver of any other venue is dropped or has unread
\* Outputs
ForwardTaskShared(s) ==
    /\ task[s] = "run"
    /\ \A v \in Venues \ {s[2]} : rx[v] # "dropped" /\ rxRead[v] = Len(unified[v])
    /\ IF perKind[s] # << >>
       THEN /\ perKind' = [perKind EXCEPT ![s] = Tail(@)]
            /\ unified' = IF rx[s[2]] = "alive"
                          THEN [unified EXCEPT ![s[2]] =
                                   Append(@, OutputFrom(s[1], Head(perKind[s])))]
                          ELSE unified
            /\ UNCHANGED task
       ELSE /\ closed[s]
            /\ task' = [task EXCEPT ![s] = "done"]
            /\ UNCHANGED <<perKind, unified>>
    /\ UNCHANGED <<channels, futures, phase, initErr, streams, rx, produced, closed, rxRead>>
    /\ UNCHANGED okxVars

\* a bounded unified channel awaited on send: with one unread Output in the
\* channel the task suspends before the send
ForwardTaskBounded(s) ==
    /\ task[s] = "run"
    /\ IF perKind[s] # << >>
       THEN /\ rx[s[2]] = "alive" => Len(unified[s[2]]) = rxRead[s[2]]
            /\ perKind' = [perKind EXCEPT ![s] = Tail(@)]
            /\ unified' = IF rx[s[2]] = "alive"
                          THEN [unified EXCEPT ![s[2]] =
                                   Append(@, OutputFrom(s[1], Head(perKind[s])))]
                          ELSE unified
            /\ UNCHANGED task
       ELSE /\ closed[s]
            /\ task' = [task EXCEPT ![s] = "done"]
            /\ UNCHANGED <<perKind, unified>>
    /\ UNCHANGED <<channels, futures, phase, initErr, streams, rx, produced, closed, rxRead>>
    /\ UNCHANGED okxVars

\* `break` on a failed send instead of `let _ =`: the task ends when its send
\* finds the unified receiver dropped
ForwardTaskStopOnErr(s) ==
    /\ task[s] = "run"
    /\ IF perKind[s] # << >>
       THEN /\ perKind' = [perKind EXCEPT ![s] = Tail(@)]
            /\ unified' = IF rx[s[2]] = "alive"
                          THEN [unified EXCEPT ![s[2]] =
                                   Append(@, OutputFrom(s[1], Head(perKind[s])))]
                          ELSE unified
            /\ task' = IF rx[s[2]] = "alive" THEN task
                       ELSE [task EXCEPT ![s] = "done"]
       ELSE /\ closed[s]
            /\ task' = [task EXCEPT ![s] = "done"]
            /\ UNCHANGED <<perKind, unified>>
    /\ UNCHANGED <<channels, futures, phase, initErr, streams, rx, produced, closed, rxRead>>
    /\ UNCHANGED okxVars

\* a loop that waits again after the None of recv instead of leaving: the task
\* never ends
ForwardTaskNeverEnds(s) ==
    /\ task[s] = "run"
    /\ perKind[s] # << >>
    /\ perKind' = [perKind EXCEPT ![s] = Tail(@)]
    /\ unified' = IF rx[s[2]] = "alive"
                  THEN [unified EXCEPT ![s[2]] =
                           Append(@, OutputFrom(s[1], Head(perKind[s])))]
                  ELSE unified
    /\ UNCHANGED <<channels, futures, phase, initErr, streams, rx, produced, closed, rxRead>>
    /\ UNCHANGED <<task, okxVars>>

\* senders looked up under the wrong key: the task sends to the unified channel
\* of another venue than the one its per-kind receiver belongs to
ForwardTaskWrongVenue(s) ==
    /\ task[s] = "run"
    /\ IF perKind[s] # << >>
       THEN /\ perKind' = [perKind EXCEPT ![s] = Tail(@)]
            /\ LET w == CHOOSE x \in Venues : x # s[2]
               IN unified' = IF rx[w] = "alive"
                             THEN [unified EXCEPT ![w] =
                                      Append(@, OutputFrom(s[1], Head(perKind[s])))]
                             ELSE unified
            /\ UNCHANGED task
       ELSE /\ closed[s]
            /\ task' = [task EXCEPT ![s] = "done"]
            /\ UNCHANGED <<perKind, unified>>
    /\ UNCHANGED <<channels, futures, phase, initErr, streams, rx, produced, closed, rxRead>>
    /\ UNCHANGED okxVars

(***************************************************************************)
(* Forwarding task, one turn of                                            *)
(*     while let Some(event) = exchange_rx.recv().await {                  *)
(*         let _ = exchange_tx.send(Output::from(event));                  *)
(*     }                                                                   *)
(* recv resumes with the oldest queued event and the send follows without  *)
(* a suspension point: the Output is enqueued when the unified receiver is *)
(* alive and discarded when it is dropped (the Err of send is ignored).    *)
(* recv yields None, ending the task, once the per-kind channel is empty   *)
(* and its senders are gone.                                               *)
(***************************************************************************)
ForwardTask(s) ==
    /\ task[s] = "run"
    /\ IF perKind[s] # << >>
       THEN /\ perKind' = [perKind EXCEPT ![s] = Tail(@)]
            /\ unified' = IF rx[s[2]] = "alive"
                          THEN [unified EXCEPT ![s[2]] =
                                   Append(@, OutputFrom(s[1], Head(perKind[s])))]
                          ELSE unified
            /\ UNCHANGED task
       ELSE /\ closed[s]
            /\ task' = [task EXCEPT ![s] = "done"]
            /\ UNCHANGED <<perKind, unified>>
    /\ UNCHANGED <<channels, futures, phase, initErr, streams, rx, produced, closed, rxRead>>
    /\ UNCHANGED okxVars

(***************************************************************************)
(* Consumer of the returned Streams: takes the next Output of a venue's    *)
(* receiver, or drops that receiver (what the channel held is freed).      *)
(***************************************************************************)
ConsumerRecv(v) ==
    /\ phase = "ok"
    /\ rx[v] = "alive"
    /\ rxRead[v] < Len(unified[v])
    /\ rxRead' = [rxRead EXCEPT ![v] = @ + 1]
    /\ UNCHANGED <<channels, futures, phase, initErr, streams, rx, perKind, produced,
                   closed, task, unified>>
    /\ UNCHANGED okxVars

DropRx(v) ==
    /\ phase = "ok"
    /\ rx[v] = "alive"
    /\ rx' = [rx EXCEPT ![v] = "dropped"]
    /\ unified' = [unified EXCEPT ![v] = << >>]
    /\ rxRead' = [rxRead EXCEPT ![v] = 0]
    /\ UNCHANGED <<channels, futures, phase, initErr, streams, perKind, produced,
                   closed, task>>
    /\ UNCHANGED okxVars

(***************************************************************************)
(* OKX trades: wire message, deserialisation, conversion                   *)
(***************************************************************************)
\* largest number of records in the "data" array of one wire message
MaxData == 2

\* texts are sequences of characters
Digits == {"0", "1", "2", "3", "4", "5", "6", "7", "8", "9"}

DigitVal == ("0" :> 0) @@ ("1" :> 1) @@ ("2" :> 2) @@ ("3" :> 3) @@ ("4" :> 4) @@
            ("5" :> 5) @@ ("6" :> 6) @@ ("7" :> 7) @@ ("8" :> 8) @@ ("9" :> 9)

IsDigit(c) == c \in Digits

RECURSIVE NatOf(_)
NatOf(digs) == IF digs = << >> THEN 0
               ELSE NatOf(SubSeq(digs, 1, Len(digs) - 1)) * 10 + DigitVal[digs[Len(digs)]]

\* crate::util::de_str::<f64>: text.parse::<f64>() on plain decimal text
\* (digits with at most one '.'); the value is mant / 10^scale
ParseF64(text) ==
    LET dots == {i \in 1..Len(text) : text[i] = "."}
        digs == SelectSeq(text, IsDigit)
    IN IF /\ \A i \in 1..Len(text) : text[i] \in Digits \cup {"."}
          /\ Cardinality(dots) <= 1
          /\ digs # << >>
       THEN [ok |-> TRUE,
             val |-> [mant |-> NatOf(digs),
                      scale |-> IF dots = {} THEN 0
                                ELSE Len(text) - (CHOOSE i \in dots : TRUE)]]
       ELSE [ok |-> FALSE]

\* crate::util::de_str_epoch_ms_as_datetime_utc: text.parse::<u64>() milliseconds
\* since the epoch, as an instant (whole seconds, milliseconds)
ParseEpochMs(text) ==
    IF text # << >> /\ \A i \in 1..Len(text) : text[i] \in Digits
    THEN [ok |-> TRUE, val |-> [secs |-> NatOf(text) \div 1000, millis |-> NatOf(text) % 1000]]
    ELSE [ok |-> FALSE]

\* Side's Deserialize: the venue's side token as the canonical two-valued Side
DeSide(token) ==
    CASE token = "buy" -> [ok |-> TRUE, val |-> "Buy"]
      [] token = "sell" -> [ok |-> TRUE, val |-> "Sell"]
      [] OTHER -> [ok |-> FALSE]

\* subscription_id(channel, market): format!("{channel}|{market}")
subscription_id(channel, market) == channel \o <<"|">> \o market

\* a header decoding that builds the key from the channel alone
de_okx_message_arg_channel_only(arg) == subscription_id(arg.channel, arg.channel)

\* the "arg" header as the message's SubscriptionId; fields of the header other
\* than channel and instId are ignored
de_okx_message_arg_as_subscription_id(arg) == subscription_id(arg.channel, arg.instId)

\* #[derive(Deserialize)] for OkxTrade: every field must decode
DeOkxTrade(w) ==
    LET price == ParseF64(w.px)
        amount == ParseF64(w.sz)
        side == DeSide(w.side)
        time == ParseEpochMs(w.ts)
    IN IF price.ok /\ amount.ok /\ side.ok /\ time.ok
       THEN [ok |-> TRUE,
             val |-> [id |-> w.tradeId, price |-> price.val, amount |-> amount.val,
                      side |-> side.val, time |-> time.val]]
       ELSE [ok |-> FALSE]

\* #[derive(Deserialize)] for OkxMessage<OkxTrade>: `data: Vec<OkxTrade>` decodes
\* only when every element decodes, otherwise the whole message is an error
DeOkxMessage(wire) ==
    LET trades == [i \in 1..Len(wire.data) |-> DeOkxTrade(wire.data[i])]
    IN IF \A i \in 1..Len(trades) : trades[i].ok
       THEN [ok |-> TRUE,
             val |-> [subscription_id |-> de_okx_message_arg_as_subscription_id(wire.arg),
                      data |-> [i \in 1..Len(trades) |-> trades[i].val]]]
       ELSE [ok |-> FALSE]

\* Exchange::from(exchange_id)
ExchangeFrom(exchange_id) == [name |-> exchange_id]

\* a conversion that collects the trades newest first
MarketIterFromReversed(exchange_id, instrument, message, now) ==
    [i \in 1..Len(message.data) |->
        LET trade == message.data[Len(message.data) + 1 - i]
        IN [ok |-> TRUE,
            val |-> [exchange_time |-> trade.time,
                     received_time |-> now,
                     exchange |-> ExchangeFrom(exchange_id),
                     instrument |-> instrument,
                     event |-> [id |-> trade.id, price |-> trade.price,
                                amount |-> trade.amount, side |-> trade.side]]]]

\* From<(ExchangeId, Instrument, OkxMessage<OkxTrade>)> for MarketIter<PublicTrade>,
\* with `now` the value of Utc::now()
MarketIterFrom(exchange_id, instrument, message, now) ==
    [i \in 1..Len(message.data) |->
        LET trade == message.data[i]
        IN [ok |-> TRUE,
            val |-> [exchange_time |-> trade.time,
                     received_time |-> now,
                     exchange |-> ExchangeFrom(exchange_id),
                     instrument |-> instrument,
                     event |-> [id |-> trade.id, price |-> trade.price,
                                amount |-> trade.amount, side |-> trade.side]]]]

\* inputs
OkxChannels == {<<"t">>, <<"t", "|", "a">>}
InstIds == {<<"a">>, <<"a", "|", "a">>}
WireArgs == [channel : OkxChannels, instId : InstIds, instType : {"SPOT", "SWAP"}]
WireTrades == [tradeId : {"1", "2"},
               px : {<<"1", "0", "0", ".", "5">>, <<"7">>, <<"a", "b", "c">>},
               sz : {<<"0", ".", "0", "1">>},
               side : {"buy", "sell", "hold"},
               ts : {<<"1", "7", "0", "0">>, <<"x">>}]
WireData == UNION {[1..n -> WireTrades] : n \in 0..MaxData}
WireMessages == [arg : WireArgs, data : WireData]
Clock == {20, 21}

IdleWire == [arg |-> [channel |-> <<"t">>, instId |-> <<"a">>, instType |-> "SPOT"],
             data |-> << >>]

InitOkxIdle ==
    /\ okxWire = IdleWire
    /\ okxPc = "idle"
    /\ okxMsg = [ok |-> FALSE]
    /\ okxOut = << >>

\* a frame arrives from the OKX WebSocket
InitOkx ==
    /\ InitMulti
    /\ okxWire \in WireMessages
    /\ okxPc = "wire"
    /\ okxMsg = [ok |-> FALSE]
    /\ okxOut = << >>

\* serde_json::from_str::<OkxMessage<OkxTrade>>(frame)
OkxDeserialise ==
    /\ okxPc = "wire"
    /\ okxMsg' = DeOkxMessage(okxWire)
    /\ okxPc' = "decoded"
    /\ UNCHANGED <<okxWire, okxOut>>
    /\ UNCHANGED multiVars

\* MarketIter::<PublicTrade>::from((exchange_id, instrument, message))
OkxTransform ==
    /\ okxPc = "decoded"
    /\ okxMsg.ok
    /\ \E now \in Clock :
          okxOut' = MarketIterFrom("Okx", okxWire.arg.instId, okxMsg.val, now)
    /\ okxPc' = "done"
    /\ UNCHANGED <<okxWire, okxMsg>>
    /\ UNCHANGED multiVars

(***************************************************************************)
(* Specifications                                                          *)
(***************************************************************************)
Init == InitMulti /\ InitOkxIdle

Next ==
    \/ \E vs \in SUBSET Venues : Add(vs)
    \/ InitStart
    \/ \E u \in 1..MaxAdds : UnitOk(u)
    \/ \E u \in 1..MaxAdds : UnitFail(u)
    \/ \E s \in Sources : Produce(s)
    \/ \E s \in Sources : CloseSource(s)
    \/ \E s \in Sources : ForwardTask(s)
    \/ \E v \in Venues : ConsumerRecv(v)
    \/ \E v \in Venues : DropRx(v)

Spec == Init /\ [][Next]_vars

\* the runtime schedules every spawned forwarding task fairly
Fairness == \A s \in Sources : WF_vars(ForwardTask(s))

FairSpec == Spec /\ Fairness

NextOkx ==
    \/ OkxDeserialise
    \/ OkxTransform

SpecOkx == InitOkx /\ [][NextOkx]_vars

(***************************************************************************)
(* Properties of MultiStreamBuilder                                        *)
(***************************************************************************)
\* the event with sequence number n of source s
EventOf(s, n) == [exchange |-> s[2], seq |-> n]

\* the per-kind channel of s holds event n
Pending(s, n) == \E i \in 1..Len(perKind[s]) : perKind[s][i] = EventOf(s, n)

\* the Output of event n of source s has been enqueued on the venue's unified channel
Enqueued(s, n) ==
    \E i \in 1..Len(unified[s[2]]) : unified[s[2]][i] = OutputFrom(s[1], EventOf(s, n))

\* the builders that registered venue v
Registered(v) == {i \in Units : v \in futures[i].venues}

Min(S) == CHOOSE x \in S : \A y \in S : x <= y

\* every channel id in use for venue v: the composition's entry, the senders the
\* units captured, the receiver in the returned Streams
ChannelIds(v) ==
    ({channels[v]} \ {0})
    \cup {futures[i].exchange_txs[v] : i \in Registered(v)}
    \cup {p[2] : p \in {q \in streams : q[1] = v}}

\* every event source s has emitted is still in its per-kind channel or has been
\* enqueued on the unified channel
NothingLost(s) == \A n \in 1..produced[s] : Pending(s, n) \/ Enqueued(s, n)

\* every event source s has emitted has been enqueued on the unified channel
AllEnqueued(s) == \A n \in 1..produced[s] : Enqueued(s, n)

\* C1: while a venue's unified receiver is alive no event of its per-kind
\* channels is lost on the way, and under fair scheduling of the forwarding
\* tasks every such event ends up enqueued on the venue's unified channel: from
\* some point on, every event emitted for a venue whose receiver is alive is on
\* that venue's unified channel (the producers take finitely many steps, so
\* this is the eventual delivery of each single event).
C1_NoSilentLoss ==
    /\ [](\A s \in Sources : rx[s[2]] = "alive" => NothingLost(s))
    /\ <>[](\A s \in Sources : rx[s[2]] = "alive" => AllEnqueued(s))

\* C1 witness: init succeeded and one venue's unified channel holds Outputs of
\* two different contributing builders, with its receiver alive.
C1_Witness ==
    /\ phase = "ok"
    /\ \E v \in Venues :
          /\ rx[v] = "alive"
          /\ \E i, j \in 1..Len(unified[v]) : unified[v][i].kind # unified[v][j].kind

C3_FailFast ==
    (\E u \in Units : futures[u].st = "failed")
        => /\ phase = "err"
           /\ streams = {}
           /\ initErr \in Units
           /\ \A u \in Units : futures[u].st = "failed" <=> u = initErr

\* C3 witness: init failed although another builder had already initialised.
C3_Witness ==
    /\ phase = "err"
    /\ \E u, w \in Units : futures[u].st = "failed" /\ futures[w].st = "ok"

\* C5: every registered venue has exactly one unified channel, the one allocated
\* by the first add that referenced it, and every unit that registered the venue
\* holds a sender of that channel; a venue nobody registered has none.
C5_OneChannelPerVenue ==
    \A v \in Venues :
        IF Registered(v) = {} THEN ChannelIds(v) = {}
        ELSE ChannelIds(v) = {Min(Registered(v))}

\* C5 witness: two added builders registered the same venue.
C5_Witness ==
    /\ phase = "building"
    /\ \E v \in Venues : Cardinality(Registered(v)) >= 2

\* C6: while only add has been called, no unit has started, no forwarding task
\* exists and no producer has emitted; and each step taken in that phase appends
\* exactly one queued unit and leaves the earlier units as they were.
C6_AddOnlyQueues ==
    /\ [](phase = "building"
            => /\ \A u \in Units : futures[u].st = "queued"
               /\ \A s \in Sources : task[s] = "none" /\ produced[s] = 0 /\ perKind[s] = << >>)
    /\ [][(phase = "building" /\ phase' = "building")
            => /\ Len(futures') = Len(futures) + 1
               /\ SubSeq(futures', 1, Len(futures)) = futures
               /\ futures'[Len(futures')].st = "queued"]_vars

\* C6 witness: two builders have been added and init has not been invoked.
C6_Witness == phase = "building" /\ Len(futures) >= 2

\* C7: when init has succeeded, the Streams handle maps exactly the venues
\* registered by the added builders, each once, to the receiver of the channel
\* the registering units send on.
C7_StreamsCoverVenues ==
    phase = "ok"
        => /\ {p[1] : p \in streams} = UNION {futures[i].venues : i \in Units}
           /\ \A p, q \in streams : p[1] = q[1] => p = q
           /\ \A p \in streams : \A i \in Registered(p[1]) :
                 futures[i].exchange_txs[p[1]] = p[2]

\* C7 witness: init succeeded for two builders that together cover both venues,
\* neither of them covering both.
C7_Witness ==
    /\ phase = "ok"
    /\ Len(futures) >= 2
    /\ {p[1] : p \in streams} = Venues
    /\ \A i \in Units : futures[i].venues # Venues

\* a venue's receiver is dropped, or holds Outputs the consumer has not read
Stalled(v) == rx[v] = "dropped" \/ rxRead[v] < Len(unified[v])

\* C4: under fair scheduling, a venue V whose receiver is dropped or left unread
\* does not hold back any other venue W: from some point on, every event emitted
\* for a venue W with a live receiver is on W's unified channel whenever some
\* other venue is stalled.
C4_VenueIsolation ==
    <>[](\A s \in Sources :
            ((\E v \in Venues \ {s[2]} : Stalled(v)) /\ rx[s[2]] = "alive")
                => AllEnqueued(s))

\* C4 witness: venue V's receiver is dropped, V's source has emitted and its
\* forwarding task has taken the event, and an event of venue W is on W's
\* unified channel, whose receiver is alive.
C4_Witness ==
    \E s, r \in Sources :
        /\ s[2] # r[2]
        /\ rx[s[2]] = "dropped" /\ produced[s] >= 1 /\ perKind[s] = << >>
        /\ rx[r[2]] = "alive" /\ Enqueued(r, 1)

(***************************************************************************)
(* Properties of the OKX trades normalisation                              *)
(***************************************************************************)
\* the pipeline has finished with the frame: converted, or rejected by the decoder
OkxFinished == okxPc = "done" \/ (okxPc = "decoded" /\ ~okxMsg.ok)

\* C8: for a wire batch of N >= 1 records that decodes, the MarketIter holds
\* exactly N outcomes and the i-th is the successful event built from the i-th
\* record: its id, parsed price, parsed amount, side and exchange time.
C8_OneOutcomePerRecord ==
    (okxPc = "done" /\ Len(okxWire.data) >= 1)
        => /\ Len(okxOut) = Len(okxWire.data)
           /\ \A i \in 1..Len(okxWire.data) :
                 /\ okxOut[i].ok
                 /\ okxOut[i].val.event.id = okxWire.data[i].tradeId
                 /\ okxOut[i].val.event.price = ParseF64(okxWire.data[i].px).val
                 /\ okxOut[i].val.event.amount = ParseF64(okxWire.data[i].sz).val
                 /\ okxOut[i].val.event.side = DeSide(okxWire.data[i].side).val
                 /\ okxOut[i].val.exchange_time = ParseEpochMs(okxWire.data[i].ts).val

\* C8 witness: a batch of two different records has been converted.
C8_Witness ==
    /\ okxPc = "done"
    /\ Len(okxWire.data) = 2
    /\ okxWire.data[1].tradeId # okxWire.data[2].tradeId
    /\ okxWire.data[1].side # okxWire.data[2].side

\* a record whose only defect is its price text
OnlyPriceInvalid(w) ==
    /\ ~ParseF64(w.px).ok
    /\ ParseF64(w.sz).ok /\ DeSide(w.side).ok /\ ParseEpochMs(w.ts).ok

\* C9: when the pipeline has finished with a batch of two records, one valid and
\* one whose price text is invalid, there are two outcomes in the order of the
\* records: a decode error for the malformed record and a successful event for
\* the valid one.
C9_MalformedFailsOnlyItself ==
    (/\ OkxFinished
     /\ Len(okxWire.data) = 2
     /\ \E i, j \in 1..2 :
           /\ i # j
           /\ OnlyPriceInvalid(okxWire.data[i])
           /\ DeOkxTrade(okxWire.data[j]).ok)
        => /\ Len(okxOut) = 2
           /\ \A i \in 1..2 : okxOut[i].ok <=> DeOkxTrade(okxWire.data[i]).ok

\* C10: the SubscriptionId of a decoded message is the one any header with the
\* same (channel, instId) yields, whatever its other fields, and differs from the
\* one of any header with the same channel and another instId.
C10_RoutingKey ==
    (okxPc \in {"decoded", "done"} /\ okxMsg.ok)
        => \A a \in WireArgs :
              a.channel = okxWire.arg.channel
                 => (de_okx_message_arg_as_subscription_id(a) = okxMsg.val.subscription_id
                        <=> a.instId = okxWire.arg.instId)

\* C10 witness: a message whose header carries an instId containing the
\* separator has been decoded.
C10_Witness ==
    /\ okxPc = "decoded"
    /\ okxMsg.ok
    /\ okxWire.arg.instId = <<"a", "|", "a">>
    /\ okxWire.arg.instType = "SWAP"

\* C11: init polls all queued units together. While init is pending every unit
\* is running or has succeeded and each running unit can resolve, to Ok or to
\* Err, whatever the others are doing; init has returned Ok only when all units
\* succeeded, and as soon as one unit has failed init has returned the error
\* with no unit left for it to wait on.
C11_ConcurrentJoin ==
    /\ phase = "initialising"
          => /\ \A u \in Units : futures[u].st \in {"running", "ok"}
             /\ \E u \in Units : futures[u].st = "running"
             /\ \A u \in Units : futures[u].st = "running"
                                    => ENABLED UnitOk(u) /\ ENABLED UnitFail(u)
    /\ phase = "ok" => \A u \in Units : futures[u].st = "ok"
    /\ (\E u \in Units : futures[u].st = "failed")
          => phase = "err" /\ \A u \in Units : futures[u].st # "running"

\* C11 witness: the second unit failed while the first had not resolved, and
\* init returned without waiting for the first.
C11_Witness ==
    /\ phase = "err"
    /\ Len(futures) = 2
    /\ futures[1].st = "dropped"
    /\ futures[2].st = "failed"

\* C12 as stated: a unit that was still in progress when init returned the
\* error of a sibling continues independently, so that at any time after init
\* started a unit that has neither succeeded nor failed can still complete its
\* builder's init and spawn its forwarding tasks.
C12_SiblingsContinue ==
    \A u \in Units :
        futures[u].st \notin {"queued", "ok", "failed"} => ENABLED UnitOk(u)

\* C12 amended: when init has returned an error no unit is running any more:
\* the units that were pending were dropped with the join, they never resume
\* and never spawn a forwarding task; the forwarding tasks of the units that
\* had already succeeded are not cancelled, they stop only at the end of their
\* own source.
C12_PendingUnitsDropped ==
    /\ [](phase = "err" =>
            \A u \in Units :
                /\ futures[u].st \in {"failed", "dropped", "ok"}
                /\ futures[u].st # "ok" => \A v \in Venues : task[<<u, v>>] = "none")
    /\ [][phase = "err" =>
            /\ futures' = futures
            /\ \A s \in Sources :
                  /\ task[s] = "none" => task'[s] = "none"
                  /\ task[s] = "run" /\ task'[s] # "run"
                        => closed[s] /\ perKind[s] = << >>]_vars

\* C12 witness: init failed while a unit with venues was pending; that unit was
\* dropped and has no forwarding task.
C12_Witness ==
    /\ phase = "err"
    /\ \E u \in Units : /\ futures[u].st = "dropped"
                        /\ futures[u].venues # {}
                        /\ \A v \in Venues : task[<<u, v>>] = "none"

\* Outputs enqueued on the unified channel of v that its receiver has not read
Unread(v) == Len(unified[v]) - rxRead[v]

C14_FailedSendDiscards ==
    /\ [](\A s \in Sources : task[s] = "done" => closed[s] /\ perKind[s] = << >>)
    /\ [][\A s \in Sources :
            /\ task[s] = "run"
            /\ rx[s[2]] # "alive"
            /\ Len(perKind'[s]) < Len(perKind[s])
            => /\ perKind'[s] = Tail(perKind[s])
               /\ unified' = unified
               /\ task'[s] = "run"]_vars

\* C14 witness: the consumer dropped the receiver of a venue after init returned
\* the Streams while a source of that venue goes on emitting: its task, still
\* running, has an event to take whose send will fail.
C14_Witness ==
    \E s \in Sources :
        /\ phase = "ok"
        /\ rx[s[2]] = "dropped"
        /\ perKind[s] # << >>
        /\ task[s] = "run"
        /\ ENABLED ForwardTask(s)

\* C15 as stated: the drop of its send target stops a forwarding task: the send
\* that finds the unified receiver of the venue dropped ends the task.
C15_StopsWhenTargetDropped ==
    [][\A s \in Sources :
          /\ task[s] = "run"
          /\ rx[s[2]] = "dropped"
          /\ Len(perKind'[s]) < Len(perKind[s])
          => task'[s] = "done"]_vars

\* C15 amended: a forwarding task is stopped by exactly one mechanism, the end
\* of its upstream per-kind source: the step that ends a task is the recv that
\* finds the per-kind channel closed and drained, whatever the state of the
\* unified receiver; a task whose source is open stays running through every
\* step, the drop of the receivers included; and every task whose source has
\* ended eventually terminates.
C15_StoppedOnlyByUpstreamEnd ==
    /\ [][\A s \in Sources :
            /\ task[s] = "run" /\ task'[s] # "run"
                  => closed[s] /\ perKind[s] = << >> /\ task'[s] = "done"
            /\ task[s] = "run" /\ ~closed'[s] => task'[s] = "run"]_vars
    /\ <>[](\A s \in Sources : closed[s] => task[s] = "done")

\* C15 witness: a task has terminated at the end of its source, while another
\* task whose unified receiver the consumer dropped has taken its events and
\* is still running.
C15_Witness ==
    \E s, r \in Sources :
        /\ phase = "ok"
        /\ task[s] = "done" /\ closed[s]
        /\ task[r] = "run" /\ rx[r[2]] = "dropped"
        /\ produced[r] >= 1 /\ perKind[r] = << >>

\* The (contributing builder, venue) pairs of the composition
Pairs == {s \in Sources : s[1] \in Units /\ s[2] \in futures[s[1]].venues}

\* The unified channel a forwarding task sends to: the sender its unit cloned
\* for the venue of the task at add
SenderOf(s) == futures[s[1]].exchange_txs[s[2]]

\* C16: once init has returned the Streams the forwarding tasks are exactly the
\* (contributing builder, venue) pairs, one task for each pair and none besides,
\* so that each per-kind receiver has its one task; the task of a pair sends to
\* the channel of its venue in the Streams, and the tasks of two builders that
\* registered the same venue send to the same channel.
C16_OneTaskPerPair ==
    phase = "ok" =>
        /\ {s \in Sources : task[s] # "none"} = Pairs
        /\ \A s \in Pairs : <<s[2], SenderOf(s)>> \in streams
        /\ \A s, r \in Pairs : s[2] = r[2] => SenderOf(s) = SenderOf(r)

\* C16 witness: init returned the Streams for two builders that registered the
\* same venue; their two tasks, one per builder, send to the same channel.
C16_Witness ==
    /\ phase = "ok"
    /\ \E s, r \in Pairs : /\ s[1] # r[1] /\ s[2] = r[2]
                           /\ task[s] = "run" /\ task[r] = "run"
                           /\ SenderOf(s) = SenderOf(r)

\* C17: every item on the unified channel of a venue is the Output of an event
\* of that same venue, emitted by the source of a builder that registered the
\* venue and already taken from that per-kind channel, and no item is on the
\* channel twice; so no event of a venue is ever on the channel of another.
C17_SameVenueAtMostOnce ==
    \A v \in Venues : \A i \in 1..Len(unified[v]) :
        LET o == unified[v][i]
            s == <<o.kind, v>>
        IN /\ o.event.exchange = v
           /\ s \in Pairs
           /\ o.event.seq \in 1..produced[s]
           /\ ~Pending(s, o.event.seq)
           /\ o = OutputFrom(s[1], EventOf(s, o.event.seq))
           /\ \A j \in 1..Len(unified[v]) : j # i => unified[v][j] # o

\* C17 witness: the tasks of two venues have each forwarded an event, and both
\* unified channels hold their Output.
C17_Witness ==
    \E s, r \in Sources :
        /\ s[2] # r[2]
        /\ unified[s[2]] = <<OutputFrom(s[1], EventOf(s, 1))>>
        /\ unified[r[2]] = <<OutputFrom(r[1], EventOf(r, 1))>>

\* C18: the lookup of a sender in exchange_txs never fails: for every venue the
\* init of its builder returns, a unit holds the sender of an existing unified
\* channel, cloned at add, which no task has taken yet while the unit has not
\* resolved; so a running unit whose builder's init succeeded can always spawn
\* its tasks and report success.
C18_SenderPresent ==
    \A u \in Units :
        /\ InitStreams(futures[u]) \subseteq futures[u].venues
        /\ InitStreams(futures[u]) \subseteq DOMAIN futures[u].exchange_txs
        /\ \A v \in InitStreams(futures[u]) :
              /\ futures[u].exchange_txs[v] \in 1..u
              /\ futures[u].st \in {"queued", "running"} => task[<<u, v>>] = "none"
        /\ futures[u].st = "running" => ENABLED UnitOk(u)

\* C18 witness: a unit whose builder registered two venues, one of them already
\* registered by an earlier builder, found both senders and spawned both tasks.
C18_Witness ==
    /\ Len(futures) = 2
    /\ futures[1].venues # {}
    /\ futures[1].venues # Venues
    /\ futures[2].venues = Venues
    /\ futures[2].st = "ok"
    /\ \A v \in Venues : task[<<2, v>>] = "run"

\* Who holds a sender of the unified channel of v: the composition (the tx of
\* its channel), a unit that has not resolved (its exchange_txs), a running task
CompositionHoldsTx(v) == channels[v] # 0
UnitHoldsTx(v) ==
    \E u \in Units : /\ v \in DOMAIN futures[u].exchange_txs
                     /\ futures[u].st \in {"queued", "running"}
TaskHoldsTx(v) == \E s \in Sources : s[2] = v /\ task[s] = "run"
ChannelClosed(v) == ~CompositionHoldsTx(v) /\ ~UnitHoldsTx(v) /\ ~TaskHoldsTx(v)

\* recv on the unified receiver of v yields None: every sender is gone and
\* nothing is left to read
ReportsClosure(v) ==
    rx[v] = "alive" /\ ChannelClosed(v) /\ rxRead[v] = Len(unified[v])

\* C19: once init has returned the Streams only running forwarding tasks hold
\* senders of the unified channels. The receiver of a venue reports closure
\* only when every source feeding the venue has closed and every event they
\* emitted has been forwarded and read; once every source of a venue has
\* closed its channel eventually has no sender left, and from then on the
\* consumer can read what the channel holds and then gets the closure.
C19_EndOfStream ==
    /\ [](phase = "ok" =>
            \A v \in Venues : ~CompositionHoldsTx(v) /\ ~UnitHoldsTx(v))
    /\ [](\A v \in Venues :
            /\ ReportsClosure(v) =>
                  \A s \in Pairs : s[2] = v =>
                      /\ closed[s]
                      /\ \A n \in 1..produced[s] : Enqueued(s, n)
            /\ rx[v] = "alive" /\ ChannelClosed(v) /\ ~ReportsClosure(v)
                  => ENABLED ConsumerRecv(v))
    /\ <>[](\A v \in Venues :
              (phase = "ok" /\ \A s \in Pairs : s[2] = v => closed[s])
                  => ChannelClosed(v))

\* C19 witness: the one source of a venue emitted an event and closed; the
\* consumer read the event and its receiver now reports closure.
C19_Witness ==
    \E v \in Venues :
        /\ phase = "ok"
        /\ ReportsClosure(v)
        /\ Len(unified[v]) >= 1

\* C20: a forwarding task exists only for a venue of a unit whose builder's
\* init has succeeded; a unit that is queued, running, failed or dropped has
\* no task; a unit that has reported success has the tasks of all its venues,
\* so when init has returned the Streams every (builder, venue) task exists.
C20_SpawnAfterOwnInit ==
    /\ \A s \in Sources : task[s] # "none" => s \in Pairs /\ futures[s[1]].st = "ok"
    /\ \A u \in Units :
          futures[u].st = "ok" => \A v \in futures[u].venues : task[<<u, v>>] # "none"
    /\ phase = "ok" => \A s \in Pairs : futures[s[1]].st = "ok" /\ task[s] # "none"

\* C20 witness: init returned the error of a builder with venues, which has
\* no task, after another builder had succeeded and spawned all of its tasks.
C20_Witness ==
    /\ phase = "err"
    /\ \E u, w \in Units :
          /\ futures[u].st = "failed" /\ futures[u].venues # {}
          /\ \A v \in Venues : task[<<u, v>>] = "none"
          /\ futures[w].st = "ok" /\ futures[w].venues # {}
          /\ \A v \in futures[w].venues : task[<<w, v>>] = "run"

====
